---- MODULE Spec2Model ----
(***************************************************************************)
(* electron-ipc-service: the pending request table (core/base.ts), the     *)
(* relay engine of the main process (core/main.ts), the renderer service   *)
(* (core/renderer.ts) and processFunction (utils/fn.ts).                   *)
(*                                                                         *)
(* The main process ("hub") and every renderer ("peer") run one event      *)
(* loop each; an action below is one macrotask of one of them, together    *)
(* with the promise reactions (microtasks) it queues.                      *)
(***************************************************************************)
EXTENDS Integers, Sequences, FiniteSets, TLC

\* ------------------------------------------------------------------ bounds
MaxCalls == 3         \* API calls the application makes over a run
MaxInvoke == 2        \* direct invoke calls issued over a run

\* ------------------------------------------------------- values of the model
\* JavaScript's undefined, for an optional argument: <<>> is undefined and
\* <<x>> is the value x.
Undefined == <<>>
Some(x) == <<x>>
IsDefined(o) == o # <<>>
Get(o) == o[1]

\* undefined as a payload or an error slot of a message
UndefinedValue == "undefined"

\* the services: the IpcMainService of the main process (0 is the id of no
\* webContents) and the IpcRendererService of every live webContents
Main == 0
Peers == {1, 2}
Services == {Main} \cup Peers

\* webContents.fromId: the live webContents, or nothing
FromId(id) == IF id \in Peers THEN Some(id) ELSE Undefined

\* the application's getWebContentsId (README: a window manager lookup by
\* window type); "closed" names a window whose webContents is gone
WindowManagerLookup(args) ==
    CASE args = <<"main">> -> Some(1)
      [] args = <<"sub">> -> Some(2)
      [] args = <<"closed">> -> Some(3)
      [] OTHER -> Undefined

\* error messages
ErrIdRequired == "webContentsId is required"
ErrNotFound == "webContents not found"
ErrRequestTimeout == "Request timeout"
ErrRejected == "Request has been reject"
ErrProcessTimeout == "Process function timed out"
ErrInvokeTimeout == "Invoke function timed out"
ErrHandler == "handler error"

\* a promise: pending, or settled once with a value or an error
PromisePending == [state |-> "pending", value |-> UndefinedValue]
Fulfilled(v) == [state |-> "fulfilled", value |-> v]
Rejected(e) == [state |-> "rejected", value |-> e]

\* the first settlement of a promise wins, later ones are ignored
SettleOverwrites(p, outcome) == outcome
Settle(p, outcome) == IF p.state = "pending" THEN outcome ELSE p

\* ------------------------------------------------------------------- state
VARIABLES
    options,          \* options[s]: the options of service s after construction
    pendingRequests,  \* pendingRequests[s]: the table of service s
    timers,           \* the hub's armed relay timers: request id -> delay
    nextId,           \* generateId: the next fresh id
    invoked,          \* invoked[id]: how often a stored continuation of id ran
    calls,            \* the invokeTo calls issued so far
    sendTos,          \* the sendTo calls issued so far
    hubQueue,         \* hubQueue[p]: messages of peer p on their way to the hub
    inbox,            \* inbox[p]: messages of the hub on their way to peer p
    listeners,        \* listeners[p]: ipcRenderer's listeners of peer p, in the order added
    registrations,    \* the handle/handleOnce/receive/receiveOnce calls made so far
    ipcMainHandlers,  \* ipcMain's request handlers: channel -> handler
    ipcMainListeners, \* ipcMain's event listeners, in the order added
    mainRegistrations, \* the handle/handleOnce calls made on the hub so far
    execs,            \* wrapped listener invocations (wrapListener/processFunction)
    hubErrors,        \* errors thrown out of a hub listener (uncaught)
    issued,           \* API calls made so far
    invokes           \* the direct invoke calls issued so far

vars == <<options, pendingRequests, timers, nextId, invoked, calls, sendTos,
          hubQueue, inbox, listeners, registrations, ipcMainHandlers,
          ipcMainListeners, mainRegistrations, execs, hubErrors, issued, invokes>>

RequestIds == 1..MaxCalls

\* ---------------------------------------------------------- configuration
\* BaseIpcService.constructor: the defaults, overridden by the given options
DefaultPendingRequestTimeout == 5000
DefaultChannelPrefix == <<"i", "p", "c", "-", "s", "e", "r", "v", "i", "c", "e", ":">>

BaseOptions(given) ==
    [ipcChannelPrefix |->
        IF IsDefined(given.ipcChannelPrefix)
        THEN Get(given.ipcChannelPrefix) ELSE DefaultChannelPrefix,
     pendingRequestTimeout |->
        IF IsDefined(given.pendingRequestTimeout)
        THEN Get(given.pendingRequestTimeout) ELSE DefaultPendingRequestTimeout,
     getWebContentsId |-> given.getWebContentsId]

\* no options given: create() and createForInterRenderers() construct the
\* renderer service this way
NoOptions ==
    [ipcChannelPrefix |-> Undefined, pendingRequestTimeout |-> Undefined,
     getWebContentsId |-> FALSE]

\* the options the hub is constructed with in the relay model: a
\* getWebContentsId and a pendingRequestTimeout of its own
GivenOptions ==
    { [ipcChannelPrefix |-> Undefined, pendingRequestTimeout |-> Some(100),
       getWebContentsId |-> TRUE] }

\* wrapChannel: the prefix and the channel concatenated; a string is the
\* sequence of its characters
WrapChannel(prefix, channel) == prefix \o channel

\* IpcChannelType: the role tags of control channels and of user operations
Internal == <<"i", "n", "t", "e", "r", "n", "a", "l">>
External == <<"e", "x", "t", "e", "r", "n", "a", "l">>

\* the names of the three control operations
InvokeToName == <<"i", "n", "v", "o", "k", "e", "-", "t", "o">>
ReplyToName == <<"r", "e", "p", "l", "y", "-", "t", "o">>
SendToName == <<"s", "e", "n", "d", "-", "t", "o">>

\* a user operation's channel built with the role tag of the control channels
ExternalAsInternal(prefix, name) == WrapChannel(prefix, Internal \o <<":">> \o name)

\* `${IpcChannelType.Internal}:${name}` and `${IpcChannelType.External}:${name}`, wrapped
InternalChannel(prefix, name) == WrapChannel(prefix, Internal \o <<":">> \o name)
ExternalChannel(prefix, name) == WrapChannel(prefix, External \o <<":">> \o name)

\* the user operation of the relay model
Operation == <<"t", "e", "s", "t", "S", "u", "b">>
\* the application's listener function: its result for a payload
ListenerResult(data) == IF data = "a" THEN "A" ELSE "B"

\* ----------------------------------------------------- pending request table
\* The operations act on a world w: the tables, the armed relay timers, the
\* count of continuation invocations, the calls (whose promises the stored
\* continuations settle) and the queue of promise reactions (microtasks).
World ==
    [pending |-> pendingRequests, timers |-> timers, invoked |-> invoked,
     calls |-> calls, jobs |-> <<>>]

Without(f, k) == [x \in DOMAIN f \ {k} |-> f[x]]
With(f, k, v) == [x \in DOMAIN f \cup {k} |-> IF x = k THEN v ELSE f[x]]

\* Map.get(id): the entry of a request id (which a message may leave undefined)
HasPending(w, s, rid) == IsDefined(rid) /\ Get(rid) \in DOMAIN w.pending[s]

\* a clearTimeout that cancels nothing
KeepTimeout(w, handle) == w

\* clearTimeout
ClearTimeout(w, handle) == [w EXCEPT !.timers = Without(@, handle)]

\* Map.delete(id)
DeletePending(w, s, id) == [w EXCEPT !.pending[s] = Without(@, id)]

\* calling a stored resolve or reject: the promise of the hub's handler
\* settles if it is still pending, and its reaction is queued
CallContinuation(w, id, c, outcome) ==
    LET counted == [w EXCEPT !.invoked[id] = @ + 1]
    IN IF w.calls[c].promise.state = "pending"
       THEN [counted EXCEPT !.calls[c].promise = Settle(@, outcome),
                            !.jobs = Append(@, c)]
       ELSE counted

\* an addPendingRequest put off to a later task: the entry is not in the
\* table when the macrotask that forwarded the request ends
AddPendingRequestDeferred(w, s, id, resolve, reject, timeout) == w

\* addPendingRequest
AddPendingRequest(w, s, id, resolve, reject, timeout) ==
    [w EXCEPT !.pending[s] =
        With(@, id, [resolve |-> resolve, reject |-> reject, timeout |-> timeout])]

\* resolvePendingRequest
ResolveKeepsEntry(w, s, rid, data) ==
    IF HasPending(w, s, rid)
    THEN LET id == Get(rid)
             entry == w.pending[s][id]
         IN CallContinuation(ClearTimeout(w, entry.timeout), id,
                             entry.resolve, Fulfilled(data))
    ELSE w
ResolvePendingRequest(w, s, rid, data) ==
    IF HasPending(w, s, rid)
    THEN LET id == Get(rid)
             entry == w.pending[s][id]
         IN CallContinuation(DeletePending(ClearTimeout(w, entry.timeout), s, id),
                             id, entry.resolve, Fulfilled(data))
    ELSE w

\* a rejectPendingRequest that leaves the entry in the table
RejectKeepsEntry(w, s, rid, error) ==
    IF HasPending(w, s, rid)
    THEN LET id == Get(rid)
             entry == w.pending[s][id]
         IN CallContinuation(ClearTimeout(w, entry.timeout), id, entry.reject,
                             Rejected(IF IsDefined(error) THEN Get(error)
                                      ELSE ErrRejected))
    ELSE w

\* rejectPendingRequest: error is optional
RejectPendingRequest(w, s, rid, error) ==
    IF HasPending(w, s, rid)
    THEN LET id == Get(rid)
             entry == w.pending[s][id]
         IN CallContinuation(DeletePending(ClearTimeout(w, entry.timeout), s, id),
                             id, entry.reject,
                             Rejected(IF IsDefined(error) THEN Get(error)
                                      ELSE ErrRejected))
    ELSE w

\* the keys of a table in insertion order (ids are generated increasing)
RECURSIVE KeysInOrder(_)
KeysInOrder(ids) ==
    IF ids = {} THEN <<>>
    ELSE LET first == CHOOSE i \in ids : \A j \in ids : i <= j
         IN <<first>> \o KeysInOrder(ids \ {first})

\* dropAllPendingRequests: forEach entry, clear, delete, reject
RECURSIVE DropEach(_, _, _)
DropEach(w, s, ids) ==
    IF ids = <<>> THEN w
    ELSE LET id == Head(ids)
         IN IF id \in DOMAIN w.pending[s]
            THEN LET entry == w.pending[s][id]
                 IN DropEach(
                        CallContinuation(
                            DeletePending(ClearTimeout(w, entry.timeout), s, id),
                            id, entry.reject, Rejected(ErrRejected)),
                        s, Tail(ids))
            ELSE DropEach(w, s, Tail(ids))

DropAllKeepsTimers(w, s) ==
    [DropEach(w, s, KeysInOrder(DOMAIN w.pending[s])) EXCEPT !.timers = w.timers]
DropAllPendingRequests(w, s) == DropEach(w, s, KeysInOrder(DOMAIN w.pending[s]))

\* ------------------------------------------------------------ relay engine
\* IpcMainService.init: handleInvokeTo registers a request handler
\* (ipcMain.handle), handleReplyTo and handleSendTo event listeners (ipcMain.on)
InitHandlers(prefix) ==
    With(<<>>, InternalChannel(prefix, InvokeToName),
         [listener |-> <<"handleInvokeTo">>, once |-> FALSE, reg |-> 0])
InitListeners(prefix) ==
    << [channel |-> InternalChannel(prefix, ReplyToName),
        listener |-> <<"handleReplyTo">>],
       [channel |-> InternalChannel(prefix, SendToName),
        listener |-> <<"handleSendTo">>] >>

\* the hub listens on a control channel
HubHandles(name) ==
    InternalChannel(options[Main].ipcChannelPrefix, name) \in DOMAIN ipcMainHandlers
HubListens(name) ==
    \E i \in DOMAIN ipcMainListeners :
        ipcMainListeners[i].channel =
            InternalChannel(options[Main].ipcChannelPrefix, name)

\* a value is truthy unless it is undefined or 0
Truthy(o) == IsDefined(o) /\ Get(o) # 0

\* options.getWebContentsId?.(...windowParams)
GetWebContentsId(windowParams) ==
    IF options[Main].getWebContentsId THEN WindowManagerLookup(windowParams)
    ELSE Undefined

\* targetWebContentsId of handleInvokeTo and handleSendTo
TargetWebContentsId(opts) ==
    IF Truthy(opts.webContentsId) THEN opts.webContentsId
    ELSE IF IsDefined(opts.windowParams)
         THEN GetWebContentsId(Get(opts.windowParams))
         ELSE Undefined

\* the error thrown while resolving the target, if any
ResolutionError(opts) ==
    IF ~Truthy(TargetWebContentsId(opts)) THEN Some(ErrIdRequired)
    ELSE IF ~IsDefined(FromId(Get(TargetWebContentsId(opts)))) THEN Some(ErrNotFound)
    ELSE Undefined

\* the catch block of handleInvokeTo: the pending request of the id is
\* rejected, and the handler returns undefined to the caller
CatchBlock(w, c, error) ==
    LET caught == RejectPendingRequest(w, Main, w.calls[c].requestId, Some(error))
    IN [caught EXCEPT !.calls[c].pc = "returned",
                      !.calls[c].result = Settle(@, Fulfilled(UndefinedValue))]

\* handleInvokeTo without its return: the awaited value is dropped
ResumeWithoutReturn(w, c) ==
    [w EXCEPT !.calls[c].pc = "returned",
              !.calls[c].result = Settle(@, Fulfilled(UndefinedValue))]

\* handleInvokeTo after its await: the awaited value is returned to the caller;
\* a rejection of the awaited promise lands in the catch block
ResumeHandler(w, c) ==
    LET p == w.calls[c].promise
    IN IF p.state = "fulfilled"
       THEN [w EXCEPT !.calls[c].pc = "returned",
                      !.calls[c].result = Settle(@, Fulfilled(p.value))]
       ELSE CatchBlock(w, c, p.value)

\* the promise reactions queued by a macrotask run before the next one
RECURSIVE RunJobs(_)
RunJobs(w) ==
    IF w.jobs = <<>> THEN w
    ELSE RunJobs(ResumeHandler([w EXCEPT !.jobs = Tail(@)], Head(w.jobs)))

\* a macrotask of the hub ends in world w
Commit(w) ==
    LET done == RunJobs(w)
    IN /\ pendingRequests' = done.pending
       /\ timers' = done.timers
       /\ invoked' = done.invoked
       /\ calls' = done.calls

\* the forwarded message with the sender's id in the place of the request id
ForwardedWithSenderAsId(channel, data, requestId, sender, wait) ==
    [channel |-> channel, data |-> data,
     options |-> [requestId |-> Some(sender), webContentsId |-> sender,
                  timeout |-> Some(wait)]]

\* the message forwarded to the target of an invokeTo call
Forwarded(channel, data, requestId, sender, wait) ==
    [channel |-> channel, data |-> data,
     options |-> [requestId |-> Some(requestId), webContentsId |-> sender,
                  timeout |-> Some(wait)]]

\* the message sent to the target of a sendTo call
Sent(channel, data, sender) ==
    [channel |-> channel, data |-> data,
     options |-> [requestId |-> Undefined, webContentsId |-> sender,
                  timeout |-> Undefined]]

\* a handleInvokeTo that starts the timer right after generating the id,
\* before it resolves the target
HandleInvokeToTimerFirst(p) ==
    /\ HubHandles(InvokeToName)
    /\ hubQueue[p] # <<>>
    /\ Head(hubQueue[p]).type = "invoke-to"
    /\ LET msg == Head(hubQueue[p])
           c == msg.call
           opts == msg.options
           requestId == nextId
           wait == IF IsDefined(opts.timeout) THEN Get(opts.timeout)
                   ELSE options[Main].pendingRequestTimeout
           error == ResolutionError(opts)
           started == [World EXCEPT !.calls[c].requestId = Some(requestId),
                                    !.calls[c].pc = "awaiting",
                                    !.timers = With(@, requestId, wait)]
       IN /\ nextId' = nextId + 1
          /\ hubQueue' = [hubQueue EXCEPT ![p] = Tail(@)]
          /\ IF IsDefined(error)
             THEN /\ Commit(CatchBlock(started, c, Get(error)))
                  /\ inbox' = inbox
             ELSE LET target == Get(TargetWebContentsId(opts))
                  IN /\ inbox' = [inbox EXCEPT ![target] = Append(@,
                            Forwarded(msg.channel, opts.data, requestId, p, wait))]
                     /\ Commit(AddPendingRequest(started, Main, requestId, c, c, requestId))
    /\ UNCHANGED <<options, ipcMainHandlers, ipcMainListeners,
                   mainRegistrations, sendTos, listeners, registrations, execs, hubErrors, issued, invokes>>

\* the hub's listener of internal:invoke-to, up to its await
HandleInvokeTo(p) ==
    /\ HubHandles(InvokeToName)
    /\ hubQueue[p] # <<>>
    /\ Head(hubQueue[p]).type = "invoke-to"
    /\ LET msg == Head(hubQueue[p])
           c == msg.call
           opts == msg.options
           requestId == nextId
           wait == IF IsDefined(opts.timeout) THEN Get(opts.timeout)
                   ELSE options[Main].pendingRequestTimeout
           error == ResolutionError(opts)
           started == [World EXCEPT !.calls[c].requestId = Some(requestId),
                                    !.calls[c].pc = "awaiting"]
       IN /\ nextId' = nextId + 1
          /\ hubQueue' = [hubQueue EXCEPT ![p] = Tail(@)]
          /\ IF IsDefined(error)
             THEN /\ Commit(CatchBlock(started, c, Get(error)))
                  /\ inbox' = inbox
             ELSE LET target == Get(TargetWebContentsId(opts))
                      armed == [started EXCEPT !.timers = With(@, requestId, wait)]
                  IN /\ inbox' = [inbox EXCEPT ![target] = Append(@,
                            Forwarded(msg.channel, opts.data, requestId, p, wait))]
                     /\ Commit(AddPendingRequest(armed, Main, requestId, c, c, requestId))
    /\ UNCHANGED <<options, ipcMainHandlers, ipcMainListeners,
                   mainRegistrations, sendTos, listeners, registrations, execs, hubErrors, issued, invokes>>

\* a timer callback that only clears its timer and rejects nothing
RelayTimeoutOnlyClears(id) ==
    /\ id \in DOMAIN timers
    /\ Commit(ClearTimeout(World, id))
    /\ UNCHANGED <<options, ipcMainHandlers, ipcMainListeners,
                   mainRegistrations, nextId, sendTos, hubQueue, inbox, listeners, registrations, execs,
                   hubErrors, issued, invokes>>

\* the relay timer of a request fires: its callback rejects the pending request
RelayTimeout(id) ==
    /\ id \in DOMAIN timers
    /\ Commit(ClearTimeout(
           RejectPendingRequest(World, Main, Some(id), Some(ErrRequestTimeout)), id))
    /\ UNCHANGED <<options, ipcMainHandlers, ipcMainListeners,
                   mainRegistrations, nextId, sendTos, hubQueue, inbox, listeners, registrations, execs,
                   hubErrors, issued, invokes>>

\* a reply-to listener that settles the oldest entry of the table, whatever
\* request id the message carries
HandleReplyToOldest(p) ==
    /\ HubListens(ReplyToName)
    /\ hubQueue[p] # <<>>
    /\ Head(hubQueue[p]).type = "reply-to"
    /\ LET msg == Head(hubQueue[p])
           oldest == IF DOMAIN pendingRequests[Main] = {} THEN Undefined
                     ELSE Some(Head(KeysInOrder(DOMAIN pendingRequests[Main])))
       IN IF msg.error # UndefinedValue
          THEN Commit(RejectPendingRequest(World, Main, oldest, Some(msg.error)))
          ELSE Commit(ResolvePendingRequest(World, Main, oldest, msg.data))
    /\ hubQueue' = [hubQueue EXCEPT ![p] = Tail(@)]
    /\ UNCHANGED <<options, ipcMainHandlers, ipcMainListeners, mainRegistrations,
                   nextId, sendTos, inbox, listeners, registrations, execs,
                   hubErrors, issued, invokes>>

\* the hub's listener of internal:reply-to
HandleReplyTo(p) ==
    /\ HubListens(ReplyToName)
    /\ hubQueue[p] # <<>>
    /\ Head(hubQueue[p]).type = "reply-to"
    /\ LET msg == Head(hubQueue[p])
       IN IF msg.error # UndefinedValue
          THEN Commit(RejectPendingRequest(World, Main, msg.requestId, Some(msg.error)))
          ELSE Commit(ResolvePendingRequest(World, Main, msg.requestId, msg.data))
    /\ hubQueue' = [hubQueue EXCEPT ![p] = Tail(@)]
    /\ UNCHANGED <<options, ipcMainHandlers, ipcMainListeners,
                   mainRegistrations, nextId, sendTos, inbox, listeners, registrations, execs, hubErrors,
                   issued, invokes>>

\* handleSendTo written like handleInvokeTo: a timer is started for the send
HandleSendToWithTimer(p) ==
    /\ HubListens(SendToName)
    /\ hubQueue[p] # <<>>
    /\ Head(hubQueue[p]).type = "send-to"
    /\ LET msg == Head(hubQueue[p])
           k == msg.send
           opts == msg.options
           error == ResolutionError(opts)
       IN IF IsDefined(error)
          THEN /\ hubErrors' = Append(hubErrors, Get(error))
               /\ sendTos' = [sendTos EXCEPT ![k].pc = "failed"]
               /\ inbox' = inbox
               /\ timers' = timers
          ELSE /\ inbox' = [inbox EXCEPT ![Get(TargetWebContentsId(opts))] =
                                Append(@, Sent(msg.channel, opts.data, p))]
               /\ sendTos' = [sendTos EXCEPT ![k].pc = "sent"]
               /\ hubErrors' = hubErrors
               /\ timers' = With(timers, nextId, options[Main].pendingRequestTimeout)
    /\ hubQueue' = [hubQueue EXCEPT ![p] = Tail(@)]
    /\ UNCHANGED <<options, ipcMainHandlers, ipcMainListeners,
                   mainRegistrations, pendingRequests, nextId, invoked, calls,
                   listeners, registrations, execs, issued, invokes>>

\* the hub's listener of internal:send-to
HandleSendTo(p) ==
    /\ HubListens(SendToName)
    /\ hubQueue[p] # <<>>
    /\ Head(hubQueue[p]).type = "send-to"
    /\ LET msg == Head(hubQueue[p])
           k == msg.send
           opts == msg.options
           error == ResolutionError(opts)
       IN IF IsDefined(error)
          THEN /\ hubErrors' = Append(hubErrors, Get(error))
               /\ sendTos' = [sendTos EXCEPT ![k].pc = "failed"]
               /\ inbox' = inbox
          ELSE /\ inbox' = [inbox EXCEPT ![Get(TargetWebContentsId(opts))] =
                                Append(@, Sent(msg.channel, opts.data, p))]
               /\ sendTos' = [sendTos EXCEPT ![k].pc = "sent"]
               /\ hubErrors' = hubErrors
    /\ hubQueue' = [hubQueue EXCEPT ![p] = Tail(@)]
    /\ UNCHANGED <<options, ipcMainHandlers, ipcMainListeners,
                   mainRegistrations, pendingRequests, timers, nextId, invoked, calls,
                   listeners, registrations, execs, issued, invokes>>

\* a destroy that also removes the request handlers of ipcMain
DestroyRemovesHandlers(s) ==
    /\ issued < MaxCalls
    /\ issued' = issued + 1
    /\ Commit(DropAllPendingRequests(World, s))
    /\ ipcMainHandlers' = <<>>
    /\ UNCHANGED <<options, ipcMainListeners, mainRegistrations, nextId, sendTos,
                   hubQueue, inbox, listeners, registrations, execs, hubErrors,
                   invokes>>

\* destroy() of a service
Destroy(s) ==
    /\ issued < MaxCalls
    /\ issued' = issued + 1
    /\ Commit(DropAllPendingRequests(World, s))
    /\ UNCHANGED <<options, ipcMainHandlers, ipcMainListeners,
                   mainRegistrations, nextId, sendTos, hubQueue, inbox, listeners, registrations, execs,
                   hubErrors, invokes>>

\* ------------------------------------------------------- renderer service
\* RequestOptions: the options of an invokeTo or sendTo call
RequestOptions(timeout, data, webContentsId, windowParams) ==
    [timeout |-> timeout, data |-> data,
     webContentsId |-> webContentsId, windowParams |-> windowParams]

\* the calls the application makes in this model: to a webContents that is
\* gone, to a window the lookup knows (with the default timeout), to a window
\* it does not know, and to a live webContents by id (with timeout 0)
InvokeToOptions ==
    { RequestOptions(Undefined, "a", Some(3), Undefined),
      RequestOptions(Undefined, "a", Undefined, Some(<<"sub">>)),
      RequestOptions(Undefined, "b", Undefined, Some(<<"nobody">>)),
      RequestOptions(Some(0), "b", Some(2), Some(<<"main">>)) }
\* the one-way messages: to a webContents that is gone and to a window the
\* lookup knows
SendToOptions ==
    { RequestOptions(Undefined, "a", Some(3), Undefined),
      RequestOptions(Undefined, "a", Undefined, Some(<<"sub">>)) }
Callers == {1}
Targets == {2}

\* invokeTo: ipcRenderer.invoke on internal:invoke-to
InvokeTo(p, opts) ==
    /\ issued < MaxCalls
    /\ issued' = issued + 1
    /\ LET c == Len(calls) + 1
       IN /\ calls' = Append(calls,
                [from |-> p, options |-> opts, pc |-> "transit",
                 requestId |-> Undefined, promise |-> PromisePending,
                 result |-> PromisePending])
          /\ hubQueue' = [hubQueue EXCEPT ![p] = Append(@,
                [type |-> "invoke-to", call |-> c,
                 channel |-> ExternalChannel(options[p].ipcChannelPrefix,
                                             Operation),
                 options |-> opts])]
    /\ UNCHANGED <<options, ipcMainHandlers, ipcMainListeners,
                   mainRegistrations, pendingRequests, timers, nextId, invoked, sendTos,
                   inbox, listeners, registrations, execs, hubErrors, invokes>>

\* sendTo: ipcRenderer.send on internal:send-to
SendTo(p, opts) ==
    /\ issued < MaxCalls
    /\ issued' = issued + 1
    /\ LET k == Len(sendTos) + 1
       IN /\ sendTos' = Append(sendTos, [from |-> p, options |-> opts, pc |-> "transit"])
          /\ hubQueue' = [hubQueue EXCEPT ![p] = Append(@,
                [type |-> "send-to", send |-> k,
                 channel |-> ExternalChannel(options[p].ipcChannelPrefix,
                                             Operation),
                 options |-> opts])]
    /\ UNCHANGED <<options, ipcMainHandlers, ipcMainListeners,
                   mainRegistrations, pendingRequests, timers, nextId, invoked, calls,
                   inbox, listeners, registrations, execs, hubErrors, invokes>>

\* what the application's listener function does when it is called
ListenerFns == {"sync", "throw", "async"}

\* a registration call and what became of it: the listener object given to
\* ipcRenderer, whether its unsubscribe function was called, how often the
\* listener was invoked and how many reply-to messages its invocations sent
Registration(p, channel, kind, once, listener) ==
    [peer |-> p, channel |-> channel, kind |-> kind, once |-> once,
     listener |-> listener, unsubscribed |-> FALSE, invocations |-> 0,
     replies |-> 0]

\* ipcRenderer.on / ipcRenderer.once: the listener is added at the end
AddListener(ls, channel, kind, once, fn, listener, reg) ==
    Append(ls, [channel |-> channel, kind |-> kind, once |-> once, fn |-> fn,
                listener |-> listener, reg |-> reg])

\* handle / handleOnce: the listener is wrapped (wrapListener returns a new
\* function at every call) and the wrapper is registered
Handle(p, fn, once) ==
    /\ issued < MaxCalls
    /\ issued' = issued + 1
    /\ LET reg == Len(registrations) + 1
           channel == ExternalChannel(options[p].ipcChannelPrefix, Operation)
           newListener == <<"wrapListener", reg>>
       IN /\ listeners' = [listeners EXCEPT ![p] =
                 AddListener(@, channel, "handle", once, fn, newListener, reg)]
          /\ registrations' = Append(registrations,
                 Registration(p, channel, "handle", once, newListener))
    /\ UNCHANGED <<options, ipcMainHandlers, ipcMainListeners,
                   mainRegistrations, pendingRequests, timers, nextId, invoked, calls, sendTos,
                   hubQueue, inbox, execs, hubErrors, invokes>>

\* the function the application passes to receive / receiveOnce
ReceiveFns == {"f"}

\* receive / receiveOnce: the application's function is registered as it is
Receive(p, f, once) ==
    /\ issued < MaxCalls
    /\ issued' = issued + 1
    /\ LET reg == Len(registrations) + 1
           channel == ExternalChannel(options[p].ipcChannelPrefix, Operation)
           listener == <<"listener", f>>
       IN /\ listeners' = [listeners EXCEPT ![p] =
                 AddListener(@, channel, "receive", once, f, listener, reg)]
          /\ registrations' = Append(registrations,
                 Registration(p, channel, "receive", once, listener))
    /\ UNCHANGED <<options, ipcMainHandlers, ipcMainListeners,
                   mainRegistrations, pendingRequests, timers, nextId, invoked, calls, sendTos,
                   hubQueue, inbox, execs, hubErrors, invokes>>

\* ipcRenderer.off (EventEmitter.removeListener): the most recently added
\* listener of the channel that is the given function, or a once wrapper of
\* it, is removed; nothing happens when there is none
RECURSIVE RemoveListener(_, _, _)
RemoveListener(ls, channel, listener) ==
    IF ls = <<>> THEN <<>>
    ELSE LET last == ls[Len(ls)]
             front == SubSeq(ls, 1, Len(ls) - 1)
         IN IF last.channel = channel /\ last.listener = listener
            THEN front
            ELSE Append(RemoveListener(front, channel, listener), last)

\* the unsubscribe function returned by registration reg is called
Unsubscribe(reg) ==
    /\ reg \in DOMAIN registrations
    /\ LET r == registrations[reg]
       IN listeners' = [listeners EXCEPT ![r.peer] =
              RemoveListener(@, r.channel, r.listener)]
    /\ registrations' = [registrations EXCEPT ![reg].unsubscribed = TRUE]
    /\ UNCHANGED <<options, ipcMainHandlers, ipcMainListeners,
                   mainRegistrations, pendingRequests, timers, nextId, invoked, calls, sendTos,
                   hubQueue, inbox, execs, hubErrors, issued, invokes>>

\* the message wrapListener sends on internal:reply-to once processFunction settled
ReplyTo(requestId, settled) ==
    [type |-> "reply-to", requestId |-> requestId,
     data |-> IF settled.state = "fulfilled" THEN settled.value ELSE UndefinedValue,
     error |-> IF settled.state = "rejected" THEN settled.value ELSE UndefinedValue]

\* processFunction arming its timer whatever the timeout is
ProcessFunctionAlwaysTimed(p, l, msg) ==
    [peer |-> p, reg |-> l.reg, requestId |-> msg.options.requestId,
     timeout |-> msg.options.timeout, data |-> msg.data,
     running |-> l.fn = "async",
     timer |-> l.fn # "throw",
     race |-> CASE l.fn = "sync" -> Fulfilled(ListenerResult(msg.data))
                [] l.fn = "throw" -> Rejected(ErrHandler)
                [] OTHER -> PromisePending]

\* processFunction up to its await: the listener function is called; a throw
\* rejects at once, otherwise the timer is armed when the timeout is positive
ProcessFunction(p, l, msg) ==
    LET timeout == IF IsDefined(msg.options.timeout) THEN Get(msg.options.timeout) ELSE 0
    IN [peer |-> p, reg |-> l.reg, requestId |-> msg.options.requestId,
        timeout |-> msg.options.timeout, data |-> msg.data,
        running |-> l.fn = "async",
        timer |-> l.fn # "throw" /\ timeout > 0,
        race |-> CASE l.fn = "sync" -> Fulfilled(ListenerResult(msg.data))
                   [] l.fn = "throw" -> Rejected(ErrHandler)
                   [] OTHER -> PromisePending]

\* the listeners of a channel called in turn with a message: the invocations
\* started and the replies sent before the macrotask ends. A listener added
\* by receive is called and nothing more; one added by handle runs
\* wrapListener, which replies as soon as processFunction has settled.
RECURSIVE CallListeners(_, _, _, _)
CallListeners(p, ls, msg, acc) ==
    IF ls = <<>> THEN acc
    ELSE LET l == Head(ls)
             called == [acc EXCEPT !.regs[l.reg].invocations = @ + 1]
         IN IF l.channel # msg.channel
            THEN CallListeners(p, Tail(ls), msg, acc)
            ELSE IF l.kind = "handle"
            THEN LET x == ProcessFunction(p, l, msg)
                 IN CallListeners(p, Tail(ls), msg,
                        IF x.race.state = "pending"
                        THEN [called EXCEPT !.execs = Append(@, x)]
                        ELSE [called EXCEPT
                                 !.execs = Append(@, x),
                                 !.out = Append(@, ReplyTo(x.requestId, x.race)),
                                 !.regs[l.reg].replies = @ + 1])
            ELSE CallListeners(p, Tail(ls), msg, called)

\* the listeners that stay registered after a message on a channel
RECURSIVE AfterEmit(_, _)
AfterEmit(ls, channel) ==
    IF ls = <<>> THEN <<>>
    ELSE IF Head(ls).channel = channel /\ Head(ls).once
         THEN AfterEmit(Tail(ls), channel)
         ELSE <<Head(ls)>> \o AfterEmit(Tail(ls), channel)

\* the invocations that can still act: the listener function is running, or
\* the timer of processFunction is armed
Live(xs) == SelectSeq(xs, LAMBDA x : x.running \/ x.timer)

\* a message of the hub arrives at a peer
Deliver(p) ==
    /\ inbox[p] # <<>>
    /\ LET msg == Head(inbox[p])
           done == CallListeners(p, listeners[p], msg,
                       [execs |-> execs, out |-> <<>>, regs |-> registrations])
       IN /\ execs' = Live(done.execs)
          /\ registrations' = done.regs
          /\ hubQueue' = [hubQueue EXCEPT ![p] = @ \o done.out]
          /\ listeners' = [listeners EXCEPT ![p] = AfterEmit(@, msg.channel)]
    /\ inbox' = [inbox EXCEPT ![p] = Tail(@)]
    /\ UNCHANGED <<options, ipcMainHandlers, ipcMainListeners,
                   mainRegistrations, pendingRequests, timers, nextId, invoked, calls, sendTos,
                   hubErrors, issued, invokes>>

\* a wrapListener that replies at every settlement, of the race or not
RaceSettlesAlwaysReplies(x, outcome) ==
    /\ hubQueue' = [hubQueue EXCEPT ![execs[x].peer] =
                        Append(@, ReplyTo(execs[x].requestId, outcome))]
    /\ registrations' = [registrations EXCEPT ![execs[x].reg].replies = @ + 1]
    /\ UNCHANGED <<options, ipcMainHandlers, ipcMainListeners, mainRegistrations,
                   pendingRequests, timers, nextId, invoked, calls, sendTos,
                   inbox, listeners, hubErrors, issued, invokes>>

\* processFunction's race settles: wrapListener resumes and sends the reply
RaceSettles(x, outcome) ==
    /\ hubQueue' =
          IF execs[x].race.state = "pending"
          THEN [hubQueue EXCEPT ![execs[x].peer] =
                    Append(@, ReplyTo(execs[x].requestId, outcome))]
          ELSE hubQueue
    /\ registrations' =
          IF execs[x].race.state = "pending"
          THEN [registrations EXCEPT ![execs[x].reg].replies = @ + 1]
          ELSE registrations
    /\ UNCHANGED <<options, ipcMainHandlers, ipcMainListeners,
                   mainRegistrations, pendingRequests, timers, nextId, invoked, calls, sendTos,
                   inbox, listeners, hubErrors, issued, invokes>>

\* the awaitable returned by an asynchronous listener function settles
ListenerSettles(x, outcome) ==
    /\ x \in DOMAIN execs
    /\ execs[x].running
    /\ execs' = Live([execs EXCEPT ![x].running = FALSE,
                                   ![x].race = Settle(@, outcome)])
    /\ RaceSettles(x, outcome)

\* the timer of processFunction fires
ProcessTimeout(x) ==
    /\ x \in DOMAIN execs
    /\ execs[x].timer
    /\ execs' = Live([execs EXCEPT ![x].timer = FALSE,
                                   ![x].race = Settle(@, Rejected(ErrProcessTimeout))])
    /\ RaceSettles(x, Rejected(ErrProcessTimeout))

\* ------------------------------------------------------------ specification
\* the services just constructed: empty tables, nothing sent, no listeners
\* but those IpcMainService.init registers
Constructed ==
    /\ pendingRequests = [s \in Services |-> <<>>]
    /\ timers = <<>>
    /\ nextId = 1
    /\ invoked = [id \in RequestIds |-> 0]
    /\ calls = <<>>
    /\ sendTos = <<>>
    /\ hubQueue = [p \in Peers |-> <<>>]
    /\ inbox = [p \in Peers |-> <<>>]
    /\ listeners = [p \in Peers |-> <<>>]
    /\ registrations = <<>>
    /\ ipcMainHandlers = InitHandlers(options[Main].ipcChannelPrefix)
    /\ ipcMainListeners = InitListeners(options[Main].ipcChannelPrefix)
    /\ mainRegistrations = <<>>
    /\ execs = <<>>
    /\ hubErrors = <<>>
    /\ issued = 0
    /\ invokes = <<>>

\* the hub constructed with one of the given option objects, the renderer
\* services without options
MainConstructedWith(givens) ==
    options \in {[s \in Services |-> BaseOptions(IF s = Main THEN given ELSE NoOptions)] :
                    given \in givens}

Init == MainConstructedWith(GivenOptions) /\ Constructed

Next ==
    \/ \E p \in Callers, opts \in InvokeToOptions : InvokeTo(p, opts)
    \/ \E p \in Callers, opts \in SendToOptions : SendTo(p, opts)
    \/ \E p \in Targets, fn \in ListenerFns : Handle(p, fn, FALSE)
    \/ \E p \in Peers : HandleInvokeTo(p)
    \/ \E p \in Peers : HandleReplyTo(p)
    \/ \E p \in Peers : HandleSendTo(p)
    \/ \E id \in RequestIds : RelayTimeout(id)
    \/ \E s \in Services : Destroy(s)
    \/ \E p \in Peers : Deliver(p)
    \/ \E x \in 1..Len(execs) :
          ListenerSettles(x, Fulfilled(ListenerResult(execs[x].data)))
    \/ \E x \in 1..Len(execs) : ListenerSettles(x, Rejected(ErrHandler))
    \/ \E x \in 1..Len(execs) : ProcessTimeout(x)

Spec == Init /\ [][Next]_vars

\* ------------------------------------------------------ target resolution
\* The hub resolving the targets of relayed calls and one-way messages:
\* every combination of a webContentsId (absent, 0, a live webContents, one
\* that is gone) and windowParams (absent, a window the lookup knows, one it
\* does not know).
ResolveOptions ==
    { RequestOptions(Undefined, "a", id, params) :
        id \in {Undefined, Some(0), Some(2), Some(3)},
        params \in {Undefined, Some(<<"main">>), Some(<<"sub">>), Some(<<"nobody">>)} }

NextResolve ==
    \/ \E p \in Callers, opts \in ResolveOptions : InvokeTo(p, opts)
    \/ \E p \in Callers, opts \in ResolveOptions : SendTo(p, opts)
    \/ \E p \in Peers : HandleInvokeTo(p)
    \/ \E p \in Peers : HandleSendTo(p)

\* the hub with and without a getWebContentsId, and the default timeout
ResolveGivenOptions ==
    { [NoOptions EXCEPT !.getWebContentsId = configured] : configured \in BOOLEAN }

InitResolve == MainConstructedWith(ResolveGivenOptions) /\ Constructed

SpecResolve == InitResolve /\ [][NextResolve]_vars

\* ------------------------------------------------------- listener registry
\* The listeners of a peer under the relay: every registration API and the
\* unsubscribe functions, with relayed calls (default timeout and timeout 0)
\* and one-way messages addressed to the peer by id. The replies stay in the
\* queue to the hub, where they can be counted.
PeerInvokeToOptions ==
    { RequestOptions(Undefined, "a", Some(2), Undefined),
      RequestOptions(Some(0), "b", Some(2), Undefined) }
PeerSendToOptions == { RequestOptions(Undefined, "a", Some(2), Undefined) }

\* the registrations the application makes: a listener of each behaviour with
\* handle, one with handleOnce, and the function f with receive and with
\* receiveOnce
HandleCalls == {<<fn, FALSE>> : fn \in ListenerFns} \cup {<<"sync", TRUE>>}
ReceiveCalls == {<<f, once>> : f \in ReceiveFns, once \in BOOLEAN}

\* every service is constructed without options
InitPeer == MainConstructedWith({NoOptions}) /\ Constructed

NextPeer ==
    \/ \E p \in Callers, opts \in PeerInvokeToOptions : InvokeTo(p, opts)
    \/ \E p \in Callers, opts \in PeerSendToOptions : SendTo(p, opts)
    \/ \E p \in Targets, h \in HandleCalls : Handle(p, h[1], h[2])
    \/ \E p \in Targets, r \in ReceiveCalls : Receive(p, r[1], r[2])
    \/ \E reg \in 1..Len(registrations) : Unsubscribe(reg)
    \/ \E p \in Peers : HandleInvokeTo(p)
    \/ \E p \in Peers : HandleSendTo(p)
    \/ \E p \in Peers : Deliver(p)
    \/ \E x \in 1..Len(execs) :
          ListenerSettles(x, Fulfilled(ListenerResult(execs[x].data)))
    \/ \E x \in 1..Len(execs) : ListenerSettles(x, Rejected(ErrHandler))
    \/ \E x \in 1..Len(execs) : ProcessTimeout(x)

SpecPeer == InitPeer /\ [][NextPeer]_vars

\* ------------------------------------------------------------ direct calls
\* invoke: ipcRenderer.invoke on the operation's channel, raced against a
\* timer when the timeout is positive (0 when the call gives none)
InvokeTimeoutDefaulted(p, opts) ==
    IF IsDefined(opts.timeout) THEN Get(opts.timeout)
    ELSE options[p].pendingRequestTimeout
InvokeTimeout(p, opts) == IF IsDefined(opts.timeout) THEN Get(opts.timeout) ELSE 0

Invoke(p, opts) ==
    /\ Len(invokes) < MaxInvoke
    /\ invokes' = Append(invokes,
            [from |-> p, options |-> opts,
             channel |-> ExternalChannel(options[p].ipcChannelPrefix, Operation),
             invokePromise |-> PromisePending,
             timer |-> IF InvokeTimeout(p, opts) > 0 THEN "armed" ELSE "none",
             result |-> PromisePending])
    /\ UNCHANGED <<options, ipcMainHandlers, ipcMainListeners,
                   mainRegistrations, pendingRequests, timers, nextId, invoked, calls, sendTos,
                   hubQueue, inbox, listeners, registrations, execs, hubErrors, issued>>

\* the transport's request/acknowledge call settles: with the value the hub's
\* handler returned, or with a failure
InvokeSettles(i, outcome) ==
    /\ i \in DOMAIN invokes
    /\ invokes[i].invokePromise.state = "pending"
    /\ invokes' = [invokes EXCEPT ![i].invokePromise = Settle(@, outcome),
                                  ![i].result = Settle(@, outcome)]
    /\ UNCHANGED <<options, ipcMainHandlers, ipcMainListeners,
                   mainRegistrations, pendingRequests, timers, nextId, invoked, calls, sendTos,
                   hubQueue, inbox, listeners, registrations, execs, hubErrors, issued>>

\* the timer of invoke fires
InvokeTimerFires(i) ==
    /\ i \in DOMAIN invokes
    /\ invokes[i].timer = "armed"
    /\ invokes' = [invokes EXCEPT
            ![i].timer = IF invokes[i].invokePromise.state = "pending"
                         THEN "first" ELSE "late",
            ![i].result = Settle(@, Rejected(ErrInvokeTimeout))]
    /\ UNCHANGED <<options, ipcMainHandlers, ipcMainListeners,
                   mainRegistrations, pendingRequests, timers, nextId, invoked, calls, sendTos,
                   hubQueue, inbox, listeners, registrations, execs, hubErrors, issued>>

\* the options a renderer service is constructed with in the direct-call model
RendererGivenOptions ==
    { [NoOptions EXCEPT !.pendingRequestTimeout = t] : t \in {Undefined, Some(0), Some(100)} }
InvokeOptions ==
    { RequestOptions(t, "a", Undefined, Undefined) : t \in {Undefined, Some(0), Some(50)} }

InitInvoke ==
    /\ options \in {[s \in Services |-> BaseOptions(IF s = Main THEN NoOptions ELSE given)] :
                      given \in RendererGivenOptions}
    /\ Constructed

NextInvoke ==
    \/ \E p \in Callers, opts \in InvokeOptions : Invoke(p, opts)
    \/ \E i \in 1..Len(invokes) : InvokeSettles(i, Fulfilled("pong"))
    \/ \E i \in 1..Len(invokes) : InvokeSettles(i, Rejected(ErrHandler))
    \/ \E i \in 1..Len(invokes) : InvokeTimerFires(i)

SpecInvoke == InitInvoke /\ [][NextInvoke]_vars

\* ------------------------------------------------- request handlers of the hub
ErrSecondHandler == "Attempted to register a second handler"
ErrNoHandler == "No handler registered"

\* operation names an application can use: the relay model's operation, the
\* names of the control operations, and short names with and without a colon
OperationNames ==
    {Operation, InvokeToName, ReplyToName, SendToName, <<>>, <<"a">>, <<":">>,
     <<"a", ":">>, <<":", "a">>}

\* the operations the application registers handlers for on the hub, and the
\* direct calls the renderer makes
HubOperations == {Operation, InvokeToName, <<"a", ":">>}
MainInvokeOptions == {RequestOptions(Undefined, "a", Undefined, Undefined)}

\* a handle / handleOnce call on the hub and what became of it
MainRegistration(operation, channel, once, listener) ==
    [operation |-> operation, channel |-> channel, once |-> once,
     listener |-> listener, unsubscribed |-> FALSE, invocations |-> 0]

\* IpcMainService.handle / handleOnce: ipcMain.handle / ipcMain.handleOnce on
\* the operation's channel, which throws when the channel has a handler
MainHandle(operation, once) ==
    /\ issued < MaxCalls
    /\ issued' = issued + 1
    /\ LET reg == Len(mainRegistrations) + 1
           ipcChannel == ExternalChannel(options[Main].ipcChannelPrefix, operation)
           listener == <<"listener", reg>>
       IN IF ipcChannel \in DOMAIN ipcMainHandlers
          THEN /\ hubErrors' = Append(hubErrors, ErrSecondHandler)
               /\ UNCHANGED <<ipcMainHandlers, mainRegistrations>>
          ELSE /\ ipcMainHandlers' = With(ipcMainHandlers, ipcChannel,
                      [listener |-> listener, once |-> once, reg |-> reg])
               /\ mainRegistrations' = Append(mainRegistrations,
                      MainRegistration(operation, ipcChannel, once, listener))
               /\ hubErrors' = hubErrors
    /\ UNCHANGED <<options, ipcMainListeners, pendingRequests, timers, nextId,
                   invoked, calls, sendTos, hubQueue, inbox, listeners,
                   registrations, execs, invokes>>

\* the unsubscribe function returned by handle / handleOnce of the hub:
\* ipcMain.off removes an event listener; the request handlers are not
\* event listeners
MainUnsubscribe(reg) ==
    /\ reg \in DOMAIN mainRegistrations
    /\ ipcMainListeners' = RemoveListener(ipcMainListeners,
                               mainRegistrations[reg].channel,
                               mainRegistrations[reg].listener)
    /\ mainRegistrations' = [mainRegistrations EXCEPT ![reg].unsubscribed = TRUE]
    /\ UNCHANGED <<options, ipcMainHandlers, pendingRequests, timers, nextId,
                   invoked, calls, sendTos, hubQueue, inbox, listeners,
                   registrations, execs, hubErrors, issued, invokes>>

\* the hub serves the oldest outstanding invoke: the handler of the channel
\* is called (one of handleOnce is removed first) and its value returned;
\* without a handler the call is rejected
ServeInvoke(i) ==
    /\ i \in DOMAIN invokes
    /\ invokes[i].invokePromise.state = "pending"
    /\ \A j \in 1..(i - 1) : invokes[j].invokePromise.state # "pending"
    /\ LET channel == invokes[i].channel
           served == channel \in DOMAIN ipcMainHandlers
           outcome == IF served THEN Fulfilled("pong") ELSE Rejected(ErrNoHandler)
       IN /\ invokes' = [invokes EXCEPT ![i].invokePromise = Settle(@, outcome),
                                        ![i].result = Settle(@, outcome)]
          /\ IF served
             THEN LET handler == ipcMainHandlers[channel]
                  IN /\ mainRegistrations' =
                           [mainRegistrations EXCEPT ![handler.reg].invocations = @ + 1]
                     /\ ipcMainHandlers' =
                           IF handler.once THEN Without(ipcMainHandlers, channel)
                           ELSE ipcMainHandlers
             ELSE UNCHANGED <<mainRegistrations, ipcMainHandlers>>
    /\ UNCHANGED <<options, ipcMainListeners, pendingRequests, timers, nextId,
                   invoked, calls, sendTos, hubQueue, inbox, listeners,
                   registrations, execs, hubErrors, issued>>

\* the channel prefixes the hub and the renderers are constructed with: the
\* default, the empty string and a prefix of their own
MainGivenOptions ==
    { [NoOptions EXCEPT !.ipcChannelPrefix = prefix] :
         prefix \in {Undefined, Some(<<>>), Some(<<"e", ":">>)} }

InitMain ==
    /\ options \in {[s \in Services |-> BaseOptions(given)] : given \in MainGivenOptions}
    /\ Constructed

NextMain ==
    \/ \E operation \in HubOperations, once \in BOOLEAN : MainHandle(operation, once)
    \/ \E reg \in 1..Len(mainRegistrations) : MainUnsubscribe(reg)
    \/ \E p \in Callers, opts \in MainInvokeOptions : Invoke(p, opts)
    \/ \E i \in 1..Len(invokes) : ServeInvoke(i)

SpecMain == InitMain /\ [][NextMain]_vars

\* ------------------------------------------------------- relay, with time
\* The relay of invokeTo calls with timers that fire: a timer started with
\* setTimeout runs its callback unless it is cleared first. Nothing else is
\* assumed to happen: a message may stay undelivered, a listener may be
\* missing or never settle, the hub may never get to a reply.
\* The calls go to a live webContents with timeout 0: the hub's timer is
\* started with delay 0 and processFunction at the target arms no timer, so
\* a listener that never settles never replies.
RelayInvokeToOptions == { RequestOptions(Some(0), "b", Some(2), Undefined) }

InitRelay == MainConstructedWith(GivenOptions) /\ Constructed

NextRelay ==
    \/ \E p \in Callers, opts \in RelayInvokeToOptions : InvokeTo(p, opts)
    \/ \E p \in Targets : Handle(p, "async", FALSE)
    \/ \E p \in Peers : HandleInvokeTo(p)
    \/ \E p \in Peers : HandleReplyTo(p)
    \/ \E id \in RequestIds : RelayTimeout(id)
    \/ Destroy(Main)
    \/ \E p \in Peers : Deliver(p)
    \/ \E x \in 1..Len(execs) :
          ListenerSettles(x, Fulfilled(ListenerResult(execs[x].data)))

\* a timer that stays armed fires (setTimeout); nothing else is fair
TimersFire == \A id \in RequestIds : WF_vars(RelayTimeout(id))

SpecRelay == InitRelay /\ [][NextRelay]_vars /\ TimersFire

\* ------------------------------------------------------------------ claims
\* the entries of the hub's table and the call an id was generated for
HubTable == pendingRequests[Main]
CallOf(id) == CHOOSE c \in DOMAIN calls : calls[c].requestId = Some(id)

\* the hub takes a reply-to message of peer p off the queue in this step
ReplyConsumed(p) ==
    /\ hubQueue[p] # <<>>
    /\ Head(hubQueue[p]).type = "reply-to"
    /\ hubQueue'[p] = Tail(hubQueue[p])

\* C1: the stored continuations of a request id are invoked at most once in
\* total, and a reply-to message for an id whose continuation has already been
\* invoked invokes nothing and leaves the table (and the timers and the calls)
\* as they are.
C1_SettledAtMostOnce ==
    [][ /\ \A id \in RequestIds : invoked'[id] <= 1
        /\ \A p \in Peers :
              (/\ ReplyConsumed(p)
               /\ IsDefined(Head(hubQueue[p]).requestId)
               /\ invoked[Get(Head(hubQueue[p]).requestId)] >= 1)
              => /\ invoked' = invoked
                 /\ pendingRequests' = pendingRequests
                 /\ timers' = timers
                 /\ calls' = calls ]_vars

\* C1 witness: the relay timer rejected a request first, then the reply of the
\* target's listener (whose invocation is still around) was taken off the
\* queue by the hub: a second attempt on a settled id.
C1_Witness ==
    \E x \in DOMAIN execs :
        /\ execs[x].race.state = "fulfilled"
        /\ IsDefined(execs[x].requestId)
        /\ hubQueue[execs[x].peer] = <<>>
        /\ invoked[Get(execs[x].requestId)] = 1
        /\ calls[CallOf(Get(execs[x].requestId))].promise = Rejected(ErrRequestTimeout)

\* C2: a call whose pending entry was resolved by a reply-to message (the
\* target's listener returned before any timeout fired) has returned to its
\* caller, whose promise is resolved with the value the listener returned for
\* the call's payload.
C2_RelaySuccess ==
    \A c \in DOMAIN calls :
        calls[c].promise.state = "fulfilled"
        => /\ calls[c].pc = "returned"
           /\ calls[c].promise.value = ListenerResult(calls[c].options.data)
           /\ calls[c].result = Fulfilled(ListenerResult(calls[c].options.data))

\* C2 witness: a call addressed by windowParams alone has been resolved with
\* the listener's value.
C2_Witness ==
    \E c \in DOMAIN calls :
        /\ ~IsDefined(calls[c].options.webContentsId)
        /\ calls[c].options.windowParams = Some(<<"sub">>)
        /\ calls[c].result = Fulfilled(ListenerResult(calls[c].options.data))

\* the messages that have reached or may still reach a peer are those in the inboxes
NothingSentFor(c) ==
    \A p \in Peers : \A i \in DOMAIN inbox[p] :
        inbox[p][i].options.requestId # calls[c].requestId

\* C3: an invokeTo call without an explicit webContentsId whose windowParams
\* resolve to no identifier ends with the caller's promise rejected with
\* 'webContentsId is required', and no message is sent to any peer.
C3_AddressingFailureRejects ==
    \A c \in DOMAIN calls :
        (/\ calls[c].pc = "returned"
         /\ ~IsDefined(calls[c].options.webContentsId)
         /\ ~Truthy(TargetWebContentsId(calls[c].options)))
        => /\ calls[c].result = Rejected(ErrIdRequired)
           /\ NothingSentFor(c)

\* C4: when the relay timer of a forwarded call fires before a reply-to message
\* with its id reached the hub, the caller's promise is rejected with
\* 'Request timeout'.
C4_RelayTimeoutRejects ==
    \A c \in DOMAIN calls :
        calls[c].promise = Rejected(ErrRequestTimeout)
        => calls[c].result = Rejected(ErrRequestTimeout)

\* C5: when the target's listener fails with error e, the reply-to message
\* carries e and the caller's promise is rejected with e.
C5_HandlerFailureRejects ==
    \A c \in DOMAIN calls :
        calls[c].promise = Rejected(ErrHandler)
        => calls[c].result = Rejected(ErrHandler)

\* C6 as claimed: the calling peer registers a pending entry for the call in
\* its own table as part of sending, under the id the call is relayed with.
C6_CallerRegistersEntry ==
    \A c \in DOMAIN calls :
        calls[c].pc \in {"transit", "awaiting"}
        => /\ pendingRequests[calls[c].from] # <<>>
           /\ IsDefined(calls[c].requestId)
              => Get(calls[c].requestId) \in DOMAIN pendingRequests[calls[c].from]

\* the request ids on their way: in forwarded messages, in listener invocations
\* and in reply-to messages
IdsInFlight ==
    UNION {{<<inbox[p][i].options.requestId, inbox[p][i].data>> :
                i \in DOMAIN inbox[p]} : p \in Peers}
    \cup {<<execs[x].requestId, execs[x].data>> : x \in DOMAIN execs}

\* C6 (amended): the hub, not the calling peer, generates the request id when
\* it handles the call and registers the pending entry under it in the hub's
\* table as part of forwarding; the tables of the peers stay empty. Ids are
\* distinct per call, and the id delivered to the target's listener with the
\* call's payload and carried by every reply-to message is the id generated
\* for that call; the entry of an id settles the call of that id.
C6_HubCorrelation ==
    /\ \A p \in Peers : pendingRequests[p] = <<>>
    /\ \A c \in DOMAIN calls :
          /\ IsDefined(calls[c].requestId) <=> calls[c].pc # "transit"
          /\ calls[c].pc = "awaiting" => Get(calls[c].requestId) \in DOMAIN HubTable
          /\ \A d \in DOMAIN calls : calls[c].requestId = calls[d].requestId
                => (c = d \/ calls[c].pc = "transit")
    /\ \A id \in DOMAIN HubTable :
          /\ calls[HubTable[id].resolve].requestId = Some(id)
          /\ calls[HubTable[id].reject].requestId = Some(id)
    /\ \A m \in IdsInFlight :
          IsDefined(m[1])
          => \E c \in DOMAIN calls :
                calls[c].requestId = m[1] /\ calls[c].options.data = m[2]
    /\ \A p \in Peers : \A i \in DOMAIN hubQueue[p] :
          (hubQueue[p][i].type = "reply-to" /\ IsDefined(hubQueue[p][i].requestId))
          => \E c \in DOMAIN calls :
                /\ calls[c].requestId = hubQueue[p][i].requestId
                /\ hubQueue[p][i].data \in
                      {UndefinedValue, ListenerResult(calls[c].options.data)}

\* C6 witness: a relayed call was settled by the reply-to message carrying its
\* id while the caller's own table held nothing.
C6_Witness ==
    \E c \in DOMAIN calls :
        /\ calls[c].promise.state = "fulfilled"
        /\ calls[c].pc = "returned"
        /\ IsDefined(calls[c].requestId)
        /\ pendingRequests[calls[c].from] = <<>>

\* C7: a direct call with a positive timeout whose timer fired before the
\* transport's reply is settled with 'Invoke function timed out', and stays so
\* when the reply arrives later.
C7_InvokeTimeout ==
    \A i \in DOMAIN invokes :
        invokes[i].timer = "first"
        => /\ InvokeTimeout(invokes[i].from, invokes[i].options) > 0
           /\ invokes[i].result = Rejected(ErrInvokeTimeout)

\* C7 witness: the timer fired first and the real reply arrived afterwards.
C7_Witness ==
    \E i \in DOMAIN invokes :
        /\ invokes[i].timer = "first"
        /\ invokes[i].invokePromise.state = "fulfilled"
        /\ invokes[i].result = Rejected(ErrInvokeTimeout)

C9_DropAll ==
    [][ \A s \in Services :
          Destroy(s)
          => LET before == DOMAIN pendingRequests[s]
             IN /\ pendingRequests'[s] = <<>>
                /\ \A id \in RequestIds :
                      invoked'[id] = invoked[id] + (IF id \in before THEN 1 ELSE 0)
                /\ \A id \in before :
                      /\ id \notin DOMAIN timers'
                      /\ calls'[pendingRequests[s][id].reject].promise
                            = Rejected(ErrRejected)
                /\ \A id \in DOMAIN timers \ before :
                      id \in DOMAIN timers' /\ timers'[id] = timers[id]
                /\ before = {}
                      => UNCHANGED <<pendingRequests, timers, invoked, calls>> ]_vars

\* C9 witness: two pending entries were dropped together.
C9_Witness ==
    /\ HubTable = <<>>
    /\ timers = <<>>
    /\ \E c, d \in DOMAIN calls :
          /\ c # d
          /\ calls[c].promise = Rejected(ErrRejected)
          /\ calls[d].promise = Rejected(ErrRejected)
          /\ invoked[Get(calls[c].requestId)] = 1
          /\ invoked[Get(calls[d].requestId)] = 1

\* a sendTo call is issued, or handled by the hub, in this step
SendToStep ==
    \/ Len(sendTos') > Len(sendTos)
    \/ \E k \in DOMAIN sendTos : sendTos[k].pc = "transit" /\ sendTos'[k].pc # "transit"
SendToFails ==
    \E k \in DOMAIN sendTos : sendTos[k].pc = "transit" /\ sendTos'[k].pc = "failed"

\* C10: issuing a sendTo call and handling it in the hub add no pending entry
\* and start no timer in any table and generate no id; when the hub cannot
\* resolve the target, no message goes to any peer and no call of the sender
\* changes.
C10_SendToFireAndForget ==
    [][ /\ SendToStep => UNCHANGED <<pendingRequests, timers, nextId, invoked, calls>>
        /\ SendToFails => UNCHANGED <<inbox, calls, pendingRequests>> ]_vars

\* C10 witness: one sendTo call could not be resolved by the hub.
C10_Witness ==
    \E k \in DOMAIN sendTos :
        /\ sendTos[k].pc = "failed"
        /\ hubErrors # <<>>
        /\ \A s \in Services : pendingRequests[s] = <<>>

\* the invocations of registration r whose processFunction has not settled yet
PendingOf(r) ==
    Cardinality({x \in DOMAIN execs :
                    execs[x].reg = r /\ execs[x].race.state = "pending"})

\* the reply-to messages peer p sends in this step
RepliesSent(p) ==
    IF Len(hubQueue'[p]) > Len(hubQueue[p])
    THEN SelectSeq(SubSeq(hubQueue'[p], Len(hubQueue[p]) + 1, Len(hubQueue'[p])),
                   LAMBDA m : m.type = "reply-to")
    ELSE <<>>

\* the request ids of the invocations that can reply in this step: those of
\* the message being delivered and of the invocations still unsettled
IdsRunning(p) ==
    {execs[x].requestId : x \in {y \in DOMAIN execs : execs[y].peer = p}}
    \cup (IF inbox[p] # <<>> THEN {Head(inbox[p]).options.requestId} ELSE {})

\* C11: every invocation of a handle/handleOnce listener sends exactly one
\* reply-to message once its processFunction settled (none before, no second
\* one later), whether the listener returned, threw, returned an awaitable or
\* was cut off by the timeout; listeners of receive send none. A reply carries
\* the request id of the invocation's relay metadata and either a result or
\* an error, never both.
C11_ExactlyOneReply ==
    [][ /\ \A r \in DOMAIN registrations' :
              registrations'[r].replies =
                  IF registrations'[r].kind = "handle"
                  THEN registrations'[r].invocations - PendingOf(r)'
                  ELSE 0
        /\ \A p \in Peers : \A i \in DOMAIN RepliesSent(p) :
              LET m == RepliesSent(p)[i]
              IN /\ m.requestId \in IdsRunning(p)
                 /\ (m.data = UndefinedValue) # (m.error = UndefinedValue) ]_vars

\* C11 witness: one relayed message invoked two handle listeners, one that
\* returned and one that threw, and each sent its reply with the request id.
C11_Witness ==
    \E p \in Peers : \E i, j \in DOMAIN hubQueue[p] :
        /\ hubQueue[p][i].type = "reply-to"
        /\ hubQueue[p][j].type = "reply-to"
        /\ IsDefined(hubQueue[p][i].requestId)
        /\ hubQueue[p][i].requestId = hubQueue[p][j].requestId
        /\ hubQueue[p][i].error = ErrHandler
        /\ hubQueue[p][j].data = ListenerResult("a")
        /\ \E r, q \in DOMAIN registrations :
              /\ r # q
              /\ registrations[r].replies = 1 /\ registrations[r].invocations = 1
              /\ registrations[q].replies = 1 /\ registrations[q].invocations = 1

\* C12: the unsubscribe function of a registration removes exactly the
\* listener that registration added and leaves every other listener
\* registered; once it has been called the registration's listener is not
\* invoked again; a listener registered with handleOnce or receiveOnce is
\* invoked at most once.
C12_UnsubscribeExact ==
    [][ /\ \A reg \in DOMAIN registrations :
              Unsubscribe(reg)
              => \A p \in Peers :
                    listeners'[p] = SelectSeq(listeners[p], LAMBDA l : l.reg # reg)
        /\ \A reg \in DOMAIN registrations :
              registrations[reg].unsubscribed
              => registrations'[reg].invocations = registrations[reg].invocations
        /\ \A reg \in DOMAIN registrations' :
              registrations'[reg].once => registrations'[reg].invocations <= 1 ]_vars

\* C20: an invocation whose metadata timeout is 0 or absent has no timer and
\* is never settled by a timeout; when the timer of an unsettled invocation
\* fires, the reply-to message sent carries 'Process function timed out' and
\* no result; when the listener completes after its invocation was settled,
\* no message is sent.
C20_HandlerTimeout ==
    [][ /\ \A x \in DOMAIN execs' :
              (execs'[x].timer \/ execs'[x].race = Rejected(ErrProcessTimeout))
              => IsDefined(execs'[x].timeout) /\ Get(execs'[x].timeout) > 0
        /\ \A p \in Peers : \A i \in DOMAIN RepliesSent(p) :
              RepliesSent(p)[i].error = ErrProcessTimeout
              => \E x \in DOMAIN execs :
                    /\ execs[x].timer /\ execs[x].peer = p
                    /\ Get(execs[x].timeout) > 0
                    /\ RepliesSent(p)[i].requestId = execs[x].requestId
        /\ \A x \in DOMAIN execs :
              (ProcessTimeout(x) /\ execs[x].race.state = "pending")
              => hubQueue'[execs[x].peer] =
                    Append(hubQueue[execs[x].peer],
                           [type |-> "reply-to", requestId |-> execs[x].requestId,
                            data |-> UndefinedValue, error |-> ErrProcessTimeout])
        /\ \A x \in DOMAIN execs : \A outcome \in {Fulfilled(ListenerResult(execs[x].data)),
                                                    Rejected(ErrHandler)} :
              (ListenerSettles(x, outcome) /\ execs[x].race.state # "pending")
              => hubQueue' = hubQueue ]_vars

\* C20 witness: the timer cut an asynchronous listener off and the listener
\* completed afterwards: the only message the peer sent is the reply with the
\* timeout error.
C20_Witness ==
    /\ execs = <<>>
    /\ \E p \in Peers :
          /\ Len(hubQueue[p]) = 1
          /\ hubQueue[p][1].type = "reply-to"
          /\ hubQueue[p][1].error = ErrProcessTimeout
          /\ hubQueue[p][1].data = UndefinedValue
    /\ Len(registrations) = 1
    /\ registrations[1].invocations = 1
    /\ registrations[1].replies = 1

\* C13: once the unsubscribe function of a handle / handleOnce call on the hub
\* has been called, the handler that call registered serves no later invoke.
C13_MainUnsubscribeRemoves ==
    [][ \A reg \in DOMAIN mainRegistrations :
           mainRegistrations[reg].unsubscribed
           => mainRegistrations'[reg].invocations
                 = mainRegistrations[reg].invocations ]_vars

\* C14: destroy of a service rejects every pending entry of its table in that
\* one step and leaves everything else as it is: the listeners of the peers,
\* the request handlers and event listeners of the hub (those of invoke-to,
\* reply-to and send-to among them), the messages on their way, the running
\* invocations, the options and the tables of the other services; so the hub
\* goes on handling the calls that arrive afterwards.
C14_DestroyFrame ==
    [][ \A s \in Services :
          Destroy(s)
          => /\ pendingRequests'[s] = <<>>
             /\ \A id \in DOMAIN pendingRequests[s] :
                   /\ invoked'[id] = invoked[id] + 1
                   /\ calls'[pendingRequests[s][id].reject].promise.state = "rejected"
             /\ \A t \in Services \ {s} : pendingRequests'[t] = pendingRequests[t]
             /\ UNCHANGED <<options, listeners, registrations, ipcMainHandlers,
                            ipcMainListeners, mainRegistrations, hubQueue, inbox,
                            execs, nextId, sendTos, hubErrors, invokes>>
             /\ HubHandles(InvokeToName)'
             /\ HubListens(ReplyToName)'
             /\ HubListens(SendToName)' ]_vars

\* C14 witness: destroy rejected the entry of one call, and the hub then
\* accepted another call, forwarded it and registered its entry.
C14_Witness ==
    \E c, d \in DOMAIN calls :
        /\ calls[c].promise = Rejected(ErrRejected)
        /\ calls[d].pc = "awaiting"
        /\ Get(calls[d].requestId) \in DOMAIN HubTable
        /\ Get(calls[d].requestId) > Get(calls[c].requestId)
        /\ \E p \in Peers : \E i \in DOMAIN inbox[p] :
              inbox[p][i].options.requestId = calls[d].requestId

\* the prefix the services of this run were constructed with
Prefix == options[Main].ipcChannelPrefix
ControlNames == {InvokeToName, ReplyToName, SendToName}

\* C15: under the configured prefix the channel of a user operation and the
\* channel of a control operation are never the same name, two user
\* operations have the same channel only if they are the same operation, and
\* likewise two control operations; so a handler the application registers on
\* the hub never takes the place of the hub's own handlers, and every
\* registered channel is the wrapped name of the operation it was registered
\* for.
C15_ChannelsInjective ==
    /\ \A a, b \in OperationNames :
          /\ ExternalChannel(Prefix, a) # InternalChannel(Prefix, b)
          /\ ExternalChannel(Prefix, a) = ExternalChannel(Prefix, b) => a = b
          /\ InternalChannel(Prefix, a) = InternalChannel(Prefix, b) => a = b
    /\ \A a \in OperationNames :
          ExternalChannel(Prefix, a) = WrapChannel(Prefix, External \o <<":">> \o a)
    /\ \A r, q \in DOMAIN mainRegistrations :
          mainRegistrations[r].channel = mainRegistrations[q].channel
          => mainRegistrations[r].operation = mainRegistrations[q].operation
    /\ \A r \in DOMAIN mainRegistrations :
          /\ mainRegistrations[r].channel
                = ExternalChannel(Prefix, mainRegistrations[r].operation)
          /\ \A name \in ControlNames :
                mainRegistrations[r].channel # InternalChannel(Prefix, name)
    /\ ipcMainHandlers[InternalChannel(Prefix, InvokeToName)].listener
          = <<"handleInvokeTo">>
    /\ \A name \in {ReplyToName, SendToName} : HubListens(name)

\* C15 witness: under the empty prefix the application registered a handler
\* for an operation named like a control operation, next to the hub's own
\* handler of that control operation.
C15_Witness ==
    /\ Prefix = <<>>
    /\ \E r \in DOMAIN mainRegistrations :
          /\ mainRegistrations[r].operation = InvokeToName
          /\ mainRegistrations[r].channel \in DOMAIN ipcMainHandlers
          /\ ipcMainHandlers[mainRegistrations[r].channel].reg = r
    /\ InternalChannel(Prefix, InvokeToName) \in DOMAIN ipcMainHandlers
    /\ Cardinality(DOMAIN ipcMainHandlers) = 3

\* the target of a request as claimed: the explicit webContentsId when the
\* request carries one, else the lookup applied to windowParams
ExplicitFirst(opts) ==
    IF IsDefined(opts.webContentsId) THEN opts.webContentsId
    ELSE IF IsDefined(opts.windowParams)
         THEN GetWebContentsId(Get(opts.windowParams))
         ELSE Undefined

\* the hub takes a request of peer p off the queue in this step
RequestConsumed(p) ==
    /\ hubQueue[p] # <<>>
    /\ Head(hubQueue[p]).type \in {"invoke-to", "send-to"}
    /\ hubQueue'[p] = Tail(hubQueue[p])

\* C16: when the hub handles an invoke-to or send-to request, the message
\* goes to the webContents of the explicit webContentsId when the request
\* carries one, and only otherwise to the one the lookup gives for
\* windowParams; when that yields no live webContents nothing is sent and no
\* entry and no timer is added.
C16_ExplicitIdFirst ==
    [][ \A p \in Peers :
          RequestConsumed(p)
          => LET target == ExplicitFirst(Head(hubQueue[p]).options)
             IN IF IsDefined(target) /\ IsDefined(FromId(Get(target)))
                THEN /\ Len(inbox'[Get(target)]) = Len(inbox[Get(target)]) + 1
                     /\ \A q \in Peers \ {Get(target)} : inbox'[q] = inbox[q]
                ELSE /\ inbox' = inbox
                     /\ pendingRequests' = pendingRequests
                     /\ timers' = timers ]_vars

\* the calls the hub forwarded to a target
ForwardedCalls ==
    {c \in DOMAIN calls :
        calls[c].pc # "transit" /\ ~IsDefined(ResolutionError(calls[c].options))}

\* C17: a forwarded call whose handler has returned (so that the caller's
\* promise is settled) has had its entry settled and removed from the hub's
\* table, by a reply-to message, the timeout or dropAll; as long as the entry
\* is in the table the handler is awaiting and the caller's promise pending.
C17_ReturnsAfterSettle ==
    \A c \in ForwardedCalls :
        LET id == Get(calls[c].requestId)
        IN /\ (calls[c].pc = "returned" \/ calls[c].result.state # "pending")
              => /\ id \notin DOMAIN HubTable
                 /\ calls[c].promise.state # "pending"
                 /\ invoked[id] = 1
           /\ id \in DOMAIN HubTable
              => /\ calls[c].pc = "awaiting"
                 /\ calls[c].promise = PromisePending
                 /\ calls[c].result = PromisePending
                 /\ invoked[id] = 0

\* C17 witness: of two forwarded calls one has returned after its timeout
\* fired and the other is still awaiting, its entry in the table.
C17_Witness ==
    \E c, d \in ForwardedCalls :
        /\ calls[c].pc = "returned"
        /\ calls[c].promise = Rejected(ErrRequestTimeout)
        /\ calls[d].pc = "awaiting"
        /\ Get(calls[d].requestId) \in DOMAIN HubTable

\* every entry of the hub's table has its timer armed, with the wait of its
\* call, and every armed timer is the timer of an entry not yet settled
TimersMatchEntries ==
    /\ DOMAIN timers = DOMAIN HubTable
    /\ \A id \in DOMAIN HubTable :
          /\ HubTable[id].timeout = id
          /\ invoked[id] = 0
          /\ calls[CallOf(id)].promise = PromisePending
          /\ timers[id] =
                IF IsDefined(calls[CallOf(id)].options.timeout)
                THEN Get(calls[CallOf(id)].options.timeout)
                ELSE options[Main].pendingRequestTimeout

\* C18: in every state the armed timers of the hub are exactly the timers of
\* the entries of its table, one per entry, none for an id that is settled or
\* absent (so a timeout fires only for an unsettled request), and a reply-to
\* message for a request whose timeout has fired changes nothing.
C18_TimerEntry ==
    [][ /\ TimersMatchEntries'
        /\ \A id \in RequestIds :
              RelayTimeout(id) => id \in DOMAIN HubTable /\ invoked[id] = 0
        /\ \A p \in Peers :
              (/\ ReplyConsumed(p)
               /\ \E c \in DOMAIN calls :
                     /\ calls[c].requestId = Head(hubQueue[p]).requestId
                     /\ IsDefined(calls[c].requestId)
                     /\ calls[c].promise = Rejected(ErrRequestTimeout))
              => UNCHANGED <<pendingRequests, timers, invoked, calls, inbox>> ]_vars

\* C18 witness: the timeout of the only call fired, and the reply of the
\* target's listener reached the hub afterwards and was dropped.
C18_Witness ==
    /\ Len(calls) = 1
    /\ calls[1].promise = Rejected(ErrRequestTimeout)
    /\ calls[1].pc = "returned"
    /\ timers = <<>>
    /\ HubTable = <<>>
    /\ \A p \in Peers : hubQueue[p] = <<>> /\ inbox[p] = <<>>
    /\ \E r \in DOMAIN registrations : registrations[r].replies = 1

\* the entry, the timer, the continuation count and the call of every request
\* id other than rid are the same after this step
OthersUntouched(rid) ==
    \A id \in DOMAIN HubTable :
        rid # Some(id)
        => /\ id \in DOMAIN pendingRequests'[Main]
           /\ pendingRequests'[Main][id] = HubTable[id]
           /\ id \in DOMAIN timers'
           /\ timers'[id] = timers[id]
           /\ invoked'[id] = invoked[id]
           /\ calls'[CallOf(id)] = calls[CallOf(id)]

\* C19: with several requests in flight, a reply-to message or a timeout for
\* one request id settles at most the entry of that id and leaves every other
\* entry, its timer and its call as they are; and whatever the order of the
\* replies, a call that is resolved is resolved with the value the listener
\* produced for its own payload.
C19_Independent ==
    [][ /\ \A p \in Peers :
              ReplyConsumed(p) => OthersUntouched(Head(hubQueue[p]).requestId)
        /\ \A id \in RequestIds : RelayTimeout(id) => OthersUntouched(Some(id))
        /\ \A c \in DOMAIN calls' :
              calls'[c].result.state = "fulfilled"
              => calls'[c].result.value \in
                    {UndefinedValue, ListenerResult(calls'[c].options.data)}
        /\ \A c \in DOMAIN calls' :
              calls'[c].promise.state = "fulfilled"
              => calls'[c].promise.value = ListenerResult(calls'[c].options.data) ]_vars

\* C19 witness: two calls with different payloads were forwarded to the same
\* listener; the reply to the later one arrived first and resolved it with
\* its own value, while the earlier one is still pending, entry and timer in
\* place.
C19_Witness ==
    \E c, d \in DOMAIN calls :
        /\ IsDefined(calls[c].requestId) /\ IsDefined(calls[d].requestId)
        /\ Get(calls[c].requestId) < Get(calls[d].requestId)
        /\ calls[c].options.data # calls[d].options.data
        /\ calls[d].result = Fulfilled(ListenerResult(calls[d].options.data))
        /\ calls[c].pc = "awaiting"
        /\ Get(calls[c].requestId) \in DOMAIN HubTable
        /\ Get(calls[c].requestId) \in DOMAIN timers
        /\ \E x \in DOMAIN execs :
              execs[x].requestId = calls[c].requestId /\ execs[x].running

\* the request ids the hub has forwarded and that are still around at a
\* peer: in a message on its way to the target, in an invocation of a
\* listener, or in a reply-to message on its way back
IdsForwarded ==
    UNION {{Get(inbox[p][i].options.requestId) :
               i \in {j \in DOMAIN inbox[p] : IsDefined(inbox[p][j].options.requestId)}}
           : p \in Peers}
    \cup {Get(execs[x].requestId) :
             x \in {y \in DOMAIN execs : IsDefined(execs[y].requestId)}}
    \cup UNION {{Get(hubQueue[p][i].requestId) :
                    i \in {j \in DOMAIN hubQueue[p] :
                              /\ hubQueue[p][j].type = "reply-to"
                              /\ IsDefined(hubQueue[p][j].requestId)}}
                : p \in Peers}

\* the entry of id has been added to the hub's table: it is there, or it
\* was removed, which invokes one of its continuations
EntryAdded(id) == id \in DOMAIN HubTable \/ invoked[id] >= 1

\* C21: the hub forwards a request and adds its pending entry in one step:
\* for every request id that is on its way to a target, being handled by a
\* listener or on its way back in a reply-to message, the entry has been
\* added; and a reply-to message the hub processes for an id it does not
\* find in the table is for an id whose entry was added and already settled
\* (by the timeout or by destroy), never for one whose entry is yet to come.
C21_NoReplyBeforeRegistration ==
    [][ /\ \A id \in IdsForwarded : EntryAdded(id)
        /\ \A p \in Peers :
              (/\ ReplyConsumed(p)
               /\ IsDefined(Head(hubQueue[p]).requestId)
               /\ Get(Head(hubQueue[p]).requestId) \notin DOMAIN HubTable)
              => /\ invoked[Get(Head(hubQueue[p]).requestId)] >= 1
                 /\ calls[CallOf(Get(Head(hubQueue[p]).requestId))].promise.state
                        # "pending" ]_vars

\* C21 witness: the target's listener threw, so its reply was sent in the
\* very task the forwarded message was delivered in; the hub found the entry
\* of the call and rejected it with the listener's error, while another
\* forwarded request is still on its way with its entry in the table.
C21_Witness ==
    \E c, d \in DOMAIN calls :
        /\ calls[c].promise = Rejected(ErrHandler)
        /\ invoked[Get(calls[c].requestId)] = 1
        /\ Get(calls[c].requestId) \notin DOMAIN HubTable
        /\ IsDefined(calls[d].requestId)
        /\ Get(calls[d].requestId) \in IdsForwarded
        /\ Get(calls[d].requestId) \in DOMAIN HubTable

\* the hub takes an invoke-to message of peer p off the queue in this step
\* (only its listener of internal:invoke-to does)
InvokeToConsumed(p) ==
    /\ hubQueue[p] # <<>>
    /\ Head(hubQueue[p]).type = "invoke-to"
    /\ hubQueue'[p] = Tail(hubQueue[p])

\* C22: when the hub's invoke-to handler cannot resolve the target (no
\* identifier, or no live webContents for the identifier), the step leaves
\* the hub's table and its armed timers exactly as they were, invokes no
\* stored continuation and sends no message to any peer; the id generated
\* for the request is in neither the table nor the timers.
C22_ResolutionFailureFrame ==
    [][ \A p \in Peers :
          (/\ InvokeToConsumed(p)
           /\ IsDefined(ResolutionError(Head(hubQueue[p]).options)))
          => /\ pendingRequests' = pendingRequests
             /\ timers' = timers
             /\ invoked' = invoked
             /\ inbox' = inbox
             /\ nextId \notin DOMAIN pendingRequests'[Main]
             /\ nextId \notin DOMAIN timers'
             /\ calls'[Head(hubQueue[p]).call].requestId = Some(nextId) ]_vars

\* C22 witness: with the entry and the timer of a forwarded call in place,
\* the hub handled a request for a webContents that is gone and one whose
\* window the lookup does not know; both returned, neither id is in the
\* table or the timers, and the earlier entry and timer are still there.
C22_Witness ==
    \E c, d, e \in DOMAIN calls :
        /\ calls[c].pc = "returned" /\ calls[e].pc = "returned"
        /\ ResolutionError(calls[c].options) = Some(ErrNotFound)
        /\ ResolutionError(calls[e].options) = Some(ErrIdRequired)
        /\ IsDefined(calls[d].requestId)
        /\ Get(calls[d].requestId) < Get(calls[c].requestId)
        /\ Get(calls[d].requestId) < Get(calls[e].requestId)
        /\ DOMAIN HubTable = {Get(calls[d].requestId)}
        /\ DOMAIN timers = {Get(calls[d].requestId)}
        /\ invoked = [id \in RequestIds |-> 0]

\* the call of request id has returned to its caller, whose promise is settled
SettledAtCaller(id) ==
    \E c \in DOMAIN calls :
        /\ calls[c].requestId = Some(id)
        /\ calls[c].pc = "returned"
        /\ calls[c].result.state # "pending"

\* C23: with timers that fire, every entry the hub adds for a forwarded call
\* is eventually removed, and by then the call has settled at its caller;
\* this holds when the forwarded message is never delivered, when the target
\* has no listener and when its listener never settles.
C23_EntriesEventuallyRemoved ==
    \A id \in RequestIds :
        (id \in DOMAIN HubTable)
        ~> (id \notin DOMAIN HubTable /\ SettledAtCaller(id))

\* C23 witness: a call was forwarded to a target without a listener, the
\* message was delivered and nobody replied; the timer removed the entry and
\* the call has returned to its caller.
C23_Witness ==
    \E c \in DOMAIN calls :
        /\ calls[c].promise = Rejected(ErrRequestTimeout)
        /\ calls[c].pc = "returned"
        /\ Get(calls[c].requestId) \notin DOMAIN HubTable
        /\ registrations = <<>>
        /\ \A p \in Peers : inbox[p] = <<>> /\ hubQueue[p] = <<>>
        /\ execs = <<>>

====
